---- MODULE Spec2Model ----
(***************************************************************************)
(* A model of the portfolio backend (src/main.py, src/schemas.py): the     *)
(* video upload handler, the video listing handler and the contact         *)
(* handler, with the local upload directory, the document store and the    *)
(* SMTP server as the state they act on.                                   *)
(*                                                                         *)
(* Handlers are coroutines on one event loop: a handler runs without       *)
(* interruption between two awaits.  upload_video has one await (the read  *)
(* of the payload, line 84) and is two steps; list_videos and send_contact *)
(* have none and are one step each.                                        *)
(*                                                                         *)
(* The document store adapter (database.py: create_document and            *)
(* get_documents) is modelled from its contract; the SMTP session and the  *)
(* file system are the environment: each call either succeeds or raises.   *)
(***************************************************************************)
EXTENDS Integers, Sequences, FiniteSets, TLC

\* ---------------------------------------------------------------- bounds
NumUploads == 2      \* upload requests in flight or finished
MaxClock == 1        \* readings of the microsecond clock, 0..MaxClock
MaxStored == 5       \* Video records already in the store at start-up
MaxLimit == 3        \* largest limit a listing request asks for
MaxContacts == 2     \* contact submissions handled

\* --------------------------------------------------------- python values
\* None where a string is expected (an absent optional field).
None == "<None>"
\* None where an id string is expected (id strings are character sequences).
NoId == << >>
\* Python truth of an optional string, and of an optional id string.
Truthy(s) == s # None /\ s # ""
TruthyId(s) == s # NoId

Requests == 1..NumUploads

\* ------------------------------------------------------- upload: inputs
\* Client-declared file names, as character sequences.
Filenames == { <<"a", ".", "m">>, <<".", "m">> }
\* Payloads, as byte sequences.
Payloads == { << >>, <<7>> }
Titles == { "t" }
Descriptions == { None }
ContentTypes == { "video/mp4" }
\* What create_document raises when the store is unreachable or rejects.
StorageErrors == { "Database not available", "write rejected" }
NoError == "<no exception>"

UPLOAD_DIR == "uploads"
MOUNT == "/uploads/"

\* ------------------------------------------------------ upload: helpers
LastIndex(p, c) ==
    LET S == { i \in 1..Len(p) : p[i] = c }
    IN  IF S = {} THEN 0 ELSE CHOOSE i \in S : \A j \in S : j <= i

\* os.path.splitext(p)[1]: from the last dot on, when that dot comes after
\* the last separator and after a character that is not a leading dot.
splitext(p) ==
    LET sepIndex == LastIndex(p, "/")
        dotIndex == LastIndex(p, ".")
    IN  IF /\ dotIndex > sepIndex
           /\ \E i \in (sepIndex + 1)..(dotIndex - 1) : p[i] # "."
        THEN SubSeq(p, dotIndex, Len(p))
        ELSE << >>

\* The decimal digits of n, zero-padded to width w (n modulo 10^w).
Pad(n, w) == [i \in 1..w |-> (n \div 10^(w - i)) % 10]

\* A reading of the clock: a second and a microsecond within it (the date,
\* hour and minute are the same throughout and left out).
Time(s, us) == [s |-> s, us |-> us]

\* strftime("%Y%m%d%H%M%S%f"): each field at its fixed width, "%S" two
\* digits and "%f" six.
strftime(t) == Pad(t.s, 2) \o Pad(t.us, 6)

\* isoformat(): the microseconds are left out when they are zero.
isoformat(t) ==
    IF t.us = 0 THEN Pad(t.s, 2) ELSE Pad(t.s, 2) \o <<".">> \o Pad(t.us, 6)

\* Faulty variant: the extension is left out of the name.
safe_name_of_mut(ts, file_ext) == [tag |-> "video_", ts |-> ts, ext |-> << >>]
\* f"video_{ts}{file_ext}"
safe_name_of(ts, file_ext) == [tag |-> "video_", ts |-> ts, ext |-> file_ext]

\* os.path.join(UPLOAD_DIR, safe_name)
file_path_of(safe_name) == [dir |-> UPLOAD_DIR, name |-> safe_name]

\* f"/uploads/{safe_name}"
public_url_of(safe_name) == [mount |-> MOUNT, name |-> safe_name]

\* The path the static mount serves a url from (line 26).
PathOfUrl(url) == [dir |-> UPLOAD_DIR, name |-> url.name]

\* The id string create_document returns for the n-th inserted document.
IdStr(n) == <<"oid", n>>

VARIABLES
    clock,      \* the microsecond datetime.utcnow() reads now
    files,      \* the upload directory: path -> bytes, for the files that exist
    video,      \* the "video" collection: a set of documents
    nextOid,    \* the next object id the store assigns
    up,         \* per upload request: its position and local variables
    listing,    \* the last listing request and its response
    contactmessage,  \* the "contactmessage" collection: a set of documents
    smtp_attempts,   \* SMTP sessions opened by send_contact so far
    smtp_delivered,  \* mails the SMTP server accepted so far
    contact,    \* the last contact submission, what met it and its response
    nContact    \* contact submissions handled so far

videoVars == <<clock, files, video, nextOid, up, listing>>
contactVars == <<contactmessage, smtp_attempts, smtp_delivered, contact, nContact>>
vars == <<clock, files, video, nextOid, up, listing,
          contactmessage, smtp_attempts, smtp_delivered, contact, nContact>>

NoName == [tag |-> "", ts |-> << >>, ext |-> << >>]
IdleUpload ==
    [pc |-> "idle", filename |-> << >>, title |-> "", description |-> None,
     content_type |-> None, payload |-> << >>,
     file_ext |-> << >>, ts |-> << >>, safe_name |-> NoName,
     contents |-> << >>, inserted_id |-> NoId, e |-> NoError,
     cleanup |-> "none", resp |-> [code |-> 0]]

\* ------------------------------------------------------- the file system
Exists(fs, path) == path \in DOMAIN fs

\* open(path, "wb") then f.write(bytes): creates or replaces the file.
WriteFile(fs, path, bytes) ==
    [q \in DOMAIN fs \cup {path} |-> IF q = path THEN bytes ELSE fs[q]]

\* Faulty variant: the cleanup removes nothing.
RemoveFile_mut(fs, path) == fs
\* os.remove(path)
RemoveFile(fs, path) == [q \in DOMAIN fs \ {path} |-> fs[q]]

\* ------------------------------------------------- document store adapter
\* create_document(kind, doc) on success: the collection with the document
\* added under a fresh object id (the id string returned is IdStr(oid)).
InsertDoc(coll, oid, doc) ==
    coll \cup { [k \in DOMAIN doc \cup {"_id"} |-> IF k = "_id" THEN oid ELSE doc[k]] }

\* The Video record of schemas.py, as the document it is stored as.
VideoDoc(title, description, filename, url, mime_type, size_bytes) ==
    [title |-> title, description |-> description, filename |-> filename,
     url |-> url, mime_type |-> mime_type, size_bytes |-> size_bytes]

\* A Video record left by an earlier run of the server, and its file.  Every
\* third one was inserted by hand, without title or description.
OldName(i) == safe_name_of(strftime(Time(0, i)), <<".", "m">>)
OldBytes(i) == [j \in 1..(i % 2) |-> 0]
OldDoc(i) ==
    IF i % 3 = 0
    THEN [_id |-> i, filename |-> OldName(i), url |-> public_url_of(OldName(i)),
          mime_type |-> "video/mp4", size_bytes |-> Len(OldBytes(i)),
          created_at |-> "2024-01-01"]
    ELSE [_id |-> i, title |-> "old", description |-> None, filename |-> OldName(i),
          url |-> public_url_of(OldName(i)), mime_type |-> "video/mp4",
          size_bytes |-> Len(OldBytes(i))]

InitVideo ==
    /\ clock = 0
    /\ \E n \in 0..MaxStored :
          /\ video = { OldDoc(i) : i \in 1..n }
          /\ files = [p \in { file_path_of(OldName(i)) : i \in 1..n } |->
                        OldBytes(CHOOSE i \in 1..n : file_path_of(OldName(i)) = p)]
          /\ nextOid = n + 1
    /\ up = [r \in Requests |-> IdleUpload]
    /\ listing = [limit |-> 0, code |-> 0, e |-> NoError]

\* ---------------------------------------------------------- upload_video
\* datetime.utcnow(): this run of the server lies within second 1.
utcnow == Time(1, clock)

\* The clock moves on between two readings (not always: two requests may
\* read the same microsecond).
Tick ==
    /\ clock < MaxClock
    /\ clock' = clock + 1
    /\ UNCHANGED <<files, video, nextOid, up, listing, contactVars>>

\* Lines 79-84: the name is derived from the declared file name and the
\* clock, then the handler awaits the payload.
UploadBegin(r) ==
    /\ up[r].pc = "idle"
    /\ \A q \in Requests : q < r => up[q].pc # "idle"
    /\ \E filename \in Filenames, title \in Titles, description \in Descriptions,
          content_type \in ContentTypes, payload \in Payloads :
          LET file_ext == splitext(filename)
              ts == strftime(utcnow)
          IN  up' = [up EXCEPT ![r] =
                      [@ EXCEPT !.pc = "reading", !.filename = filename,
                                !.title = title, !.description = description,
                                !.content_type = content_type, !.payload = payload,
                                !.file_ext = file_ext, !.ts = ts,
                                !.safe_name = safe_name_of(ts, file_ext)]]
    /\ UNCHANGED <<clock, files, video, nextOid, listing, contactVars>>

\* The response of lines 108-116.
VideoOut200(inserted_id, doc, public_url, now) ==
    [code |-> 200, id |-> inserted_id, title |-> doc.title,
     description |-> doc.description, url |-> public_url,
     mime_type |-> doc.mime_type, size_bytes |-> doc.size_bytes,
     created_at |-> now]

\* HTTPException(status_code=500, detail=str(e))
Http500(detail) == [code |-> 500, detail |-> detail]

\* Faulty variant: size_bytes is not taken from the payload.
video_doc_mut(r, contents) ==
    VideoDoc(up[r].title, up[r].description, up[r].safe_name,
             public_url_of(up[r].safe_name), up[r].content_type, 0)
\* The record built at lines 90-97 from what request r holds.
video_doc(r, contents) ==
    VideoDoc(up[r].title, up[r].description, up[r].safe_name,
             public_url_of(up[r].safe_name), up[r].content_type, Len(contents))

\* Lines 84-99, 108-116: the payload is read and written, the record is
\* inserted, the descriptor is returned.
UploadStored(r) ==
    /\ up[r].pc = "reading"
    /\ LET contents == up[r].payload
           file_path == file_path_of(up[r].safe_name)
           doc == video_doc(r, contents)
           inserted_id == IdStr(nextOid)
       IN  /\ files' = WriteFile(files, file_path, contents)
           /\ video' = InsertDoc(video, nextOid, doc)
           /\ nextOid' = nextOid + 1
           /\ up' = [up EXCEPT ![r] =
                       [@ EXCEPT !.pc = "done", !.contents = contents,
                                 !.inserted_id = inserted_id,
                                 !.resp = VideoOut200(inserted_id, doc,
                                            public_url_of(up[r].safe_name),
                                            isoformat(utcnow))]]
    /\ UNCHANGED <<clock, listing, contactVars>>

\* Lines 84-106: the payload is read and written, create_document raises e,
\* the file is removed (os.remove may itself raise, which is swallowed) and
\* the request is answered 500 with str(e).
UploadStoreFailed(r) ==
    /\ up[r].pc = "reading"
    /\ \E e \in StorageErrors, removed \in BOOLEAN :
          LET contents == up[r].payload
              file_path == file_path_of(up[r].safe_name)
              written == WriteFile(files, file_path, contents)
          IN  /\ files' = IF removed THEN RemoveFile(written, file_path) ELSE written
              /\ up' = [up EXCEPT ![r] =
                          [@ EXCEPT !.pc = "done", !.contents = contents, !.e = e,
                                    !.cleanup = IF removed THEN "removed" ELSE "failed",
                                    !.resp = Http500(e)]]
    /\ UNCHANGED <<clock, video, nextOid, listing, contactVars>>

\* Lines 84-86: open or write raises (the exception is not caught: the
\* framework answers 500).  A failed open leaves the directory as it was; a
\* failed write leaves a file holding a proper prefix of the payload.
UploadWriteFailed(r) ==
    /\ up[r].pc = "reading"
    /\ \E n \in (0 - 1)..(Len(up[r].payload) - 1) :
          LET file_path == file_path_of(up[r].safe_name)
          IN  /\ files' = IF n < 0 THEN files
                          ELSE WriteFile(files, file_path, SubSeq(up[r].payload, 1, n))
              /\ up' = [up EXCEPT ![r] =
                          [@ EXCEPT !.pc = "done", !.contents = up[r].payload,
                                    !.resp = Http500("Internal Server Error")]]
    /\ UNCHANGED <<clock, video, nextOid, listing, contactVars>>

NextUpload ==
    \/ Tick
    \/ \E r \in Requests : UploadBegin(r)
    \/ \E r \in Requests : UploadStored(r)
    \/ \E r \in Requests : UploadStoreFailed(r)
    \/ \E r \in Requests : UploadWriteFailed(r)

\* ----------------------------------------------------------- list_videos
Min(a, b) == IF a < b THEN a ELSE b

\* The documents of S as a list, by object id.
RECURSIVE ById(_)
ById(S) ==
    IF S = {} THEN << >>
    ELSE LET d == CHOOSE x \in S : \A y \in S : x["_id"] <= y["_id"]
         IN  <<d>> \o ById(S \ {d})

\* get_documents(kind, {}, limit) on success: the lists it may return.  Up
\* to `limit` documents: min(limit, N) of the N stored ones, whichever the
\* store picks (the order within the list is not modelled: the handler
\* maps the list element by element).  For a limit below zero the
\* adapter's contract says nothing: any selection is possible.
get_documents(coll, limit) ==
    { ById(S) : S \in { T \in SUBSET coll :
                          IF limit >= 0
                          THEN Cardinality(T) = Min(limit, Cardinality(coll))
                          ELSE TRUE } }

\* d.get(key, default)
Get(d, key, default) == IF key \in DOMAIN d THEN d[key] ELSE default

\* str(d.get("_id")): the id string of the document's object id.
StrOfId(d) == IdStr(d["_id"])

\* Lines 128-136: one raw document in the public shape.
VideoOutOf(d) ==
    [id |-> StrOfId(d),
     title |-> Get(d, "title", "Untitled"),
     description |-> Get(d, "description", None),
     url |-> Get(d, "url", ""),
     mime_type |-> Get(d, "mime_type", None),
     size_bytes |-> Get(d, "size_bytes", None),
     created_at |-> IF Truthy(Get(d, "created_at", None))
                    THEN Get(d, "created_at", None) ELSE None]

\* Faulty variant: the loop stops one document early.
MapDocs_mut(docs) == [i \in 1..(Len(docs) - 1) |-> VideoOutOf(docs[i])]
\* Lines 126-137: the loop that builds the response list.
MapDocs(docs) == [i \in 1..Len(docs) |-> VideoOutOf(docs[i])]

Limits == (0 - 1)..MaxLimit

\* Lines 120-137 when the query succeeds.
ListVideos ==
    /\ \E limit \in Limits :
          \E docs \in get_documents(video, limit) :
             listing' = [limit |-> limit, code |-> 200, e |-> NoError,
                         out |-> MapDocs(docs)]
    /\ UNCHANGED <<clock, files, video, nextOid, up, contactVars>>

\* Lines 120-124 when get_documents raises e.
ListVideosFailed ==
    /\ \E limit \in Limits, e \in StorageErrors :
          listing' = [limit |-> limit, code |-> 500, e |-> e, detail |-> e]
    /\ UNCHANGED <<clock, files, video, nextOid, up, contactVars>>

NextList == ListVideos \/ ListVideosFailed

\* ---------------------------------------------------------- send_contact
MIN_LENGTH == 1
MAX_LENGTH == 5000

\* Submitted fields.  An address is a character sequence; a message is
\* given by its length, the only thing about it the handler depends on.
Names == { "Ann" }
Emails == { <<"a", "@", "b", ".", "c">>, <<"a", "b", ".", "c">>, <<"a", "@", "b">> }
Messages == { 0, MIN_LENGTH, MAX_LENGTH, MAX_LENGTH + 1 }
Drop(p, f) == [k \in DOMAIN p \ {f} |-> p[k]]
FullPayloads == [name : Names, email : Emails, message : Messages]
\* The JSON bodies a client sends: every field, or one field missing.
Bodies ==
    FullPayloads \cup
    { Drop([name |-> "Ann", email |-> <<"a", "@", "b", ".", "c">>, message |-> 1], f) :
        f \in {"name", "email", "message"} }

\* os.getenv of the three settings: unset, empty or set.
GmailUsers == { "", "me@gmail.com" }
GmailPasswords == { None, "pw" }
ContactTos == { None, "to@x.org" }
\* What the SMTP session raises when connect, login or sendmail fails.
SmtpErrors == { "Connection refused", "(535, b'Bad credentials')" }

Count(q, c) == Cardinality({ i \in 1..Len(q) : q[i] = c })

\* What EmailStr accepts: one "@", a local part, and a domain of at least
\* two non-empty labels.
IsEmailSyntax(a) ==
    /\ Count(a, "@") = 1
    /\ LET at == LastIndex(a, "@")
           domain == SubSeq(a, at + 1, Len(a))
       IN  /\ at > 1
           /\ Count(domain, ".") >= 1
           /\ domain[1] # "."
           /\ domain[Len(domain)] # "."
           /\ \A i \in 1..(Len(domain) - 1) : ~(domain[i] = "." /\ domain[i + 1] = ".")

\* Faulty variant: email declared as a plain str.
ValidPayload_mut(body) ==
    /\ DOMAIN body = {"name", "email", "message"}
\* ContactPayload (lines 140-143): name, email and message are required,
\* email is an EmailStr; the length of message is not constrained here.
ValidPayload(body) ==
    /\ DOMAIN body = {"name", "email", "message"}
    /\ IsEmailSyntax(body.email)

\* ContactMessage (schemas.py 52-56), built from a validated payload.
ValidContactMessage(payload) ==
    /\ IsEmailSyntax(payload.email)
    /\ MIN_LENGTH <= payload.message
    /\ payload.message <= MAX_LENGTH

\* Lines 148-150.
to_email_of(env) ==
    IF Truthy(env.CONTACT_TO_EMAIL) THEN env.CONTACT_TO_EMAIL ELSE env.GMAIL_USER

\* Faulty variant: the credential is not looked at.
Configured_mut(env) ==
    Truthy(env.GMAIL_USER) /\ Truthy(to_email_of(env))
\* Line 158: if gmail_user and gmail_app_password and to_email
Configured(env) ==
    Truthy(env.GMAIL_USER) /\ Truthy(env.GMAIL_APP_PASSWORD) /\ Truthy(to_email_of(env))

\* Lines 163-168: the mail composed for a payload.
MailOf(payload, env) ==
    [From |-> env.GMAIL_USER, To |-> to_email_of(env),
     Subject |-> <<"New Contact from ", payload.name>>,
     body |-> <<payload.name, payload.email, payload.message>>]
NoMail == [From |-> None]

\* Lines 152-156: does the store get the record?  Building the
\* ContactMessage may raise, and so may create_document; both are swallowed.
Persists(payload, store_up) == ValidContactMessage(payload) /\ store_up

saved_id_of(payload, store_up) ==
    IF Persists(payload, store_up) THEN IdStr(nextOid) ELSE NoId

\* Lines 152-156 as the change of the store.
PersistStep(payload, store_up) ==
    IF Persists(payload, store_up)
    THEN /\ contactmessage' = InsertDoc(contactmessage, nextOid, payload)
         /\ nextOid' = nextOid + 1
    ELSE UNCHANGED <<contactmessage, nextOid>>

\* Faulty variant: the saved id is not passed on.
Sent200_mut(saved_id) ==
    [code |-> 200, status |-> "sent", saved_id |-> NoId]
\* Line 174
Sent200(saved_id) ==
    [code |-> 200, status |-> "sent", saved_id |-> saved_id]

\* Faulty variant: a send failure with nothing saved is answered 500.
SavedOnly202_mut(warning, saved_id) ==
    IF TruthyId(saved_id)
    THEN [code |-> 202, status |-> "saved_only", warning |-> warning,
          saved_id |-> saved_id]
    ELSE [code |-> 500, detail |-> warning]
\* Line 177
SavedOnly202(warning, saved_id) ==
    [code |-> 202, status |-> "saved_only", warning |-> warning,
     saved_id |-> saved_id]

\* Line 181
SavedOnly200(saved_id) ==
    [code |-> 200, status |-> "saved_only", saved_id |-> saved_id]

Envs == [GMAIL_USER : GmailUsers, GMAIL_APP_PASSWORD : GmailPasswords,
         CONTACT_TO_EMAIL : ContactTos]

Logged(body, env, store_up, smtp, saved_id, mail, resp) ==
    [body |-> body, env |-> env, store_up |-> store_up, smtp |-> smtp,
     saved_id |-> saved_id, mail |-> mail, resp |-> resp]

InitContact ==
    /\ contactmessage = {}
    /\ smtp_attempts = 0
    /\ smtp_delivered = 0
    /\ nContact = 0
    /\ contact = [resp |-> [code |-> 0]]

\* The framework validates the body against ContactPayload before the
\* handler runs and answers 422 itself.
ContactRejected ==
    /\ nContact < MaxContacts
    /\ \E body \in Bodies, env \in Envs, store_up \in BOOLEAN :
          /\ ~ValidPayload(body)
          /\ contact' = Logged(body, env, store_up, "none", NoId, NoMail,
                                [code |-> 422])
    /\ nContact' = nContact + 1
    /\ UNCHANGED <<videoVars, contactmessage, smtp_attempts, smtp_delivered>>

\* Lines 146-174: email is configured and the SMTP session succeeds.
ContactSent ==
    /\ nContact < MaxContacts
    /\ \E payload \in Bodies, env \in Envs, store_up \in BOOLEAN :
          /\ ValidPayload(payload)
          /\ Configured(env)
          /\ PersistStep(payload, store_up)
          /\ contact' = Logged(payload, env, store_up, "ok",
                                saved_id_of(payload, store_up), MailOf(payload, env),
                                Sent200(saved_id_of(payload, store_up)))
    /\ smtp_attempts' = smtp_attempts + 1
    /\ smtp_delivered' = smtp_delivered + 1
    /\ nContact' = nContact + 1
    /\ UNCHANGED <<clock, files, video, up, listing>>

\* Lines 146-177: email is configured and the SMTP session raises e.
ContactSendFailed ==
    /\ nContact < MaxContacts
    /\ \E payload \in Bodies, env \in Envs, store_up \in BOOLEAN, e \in SmtpErrors :
          /\ ValidPayload(payload)
          /\ Configured(env)
          /\ PersistStep(payload, store_up)
          /\ contact' = Logged(payload, env, store_up, e,
                                saved_id_of(payload, store_up), MailOf(payload, env),
                                SavedOnly202(e, saved_id_of(payload, store_up)))
    /\ smtp_attempts' = smtp_attempts + 1
    /\ nContact' = nContact + 1
    /\ UNCHANGED <<clock, files, video, up, listing, smtp_delivered>>

\* Lines 146-158, 179-183: email is not configured.
ContactNotConfigured ==
    /\ nContact < MaxContacts
    /\ \E payload \in Bodies, env \in Envs, store_up \in BOOLEAN :
          /\ ValidPayload(payload)
          /\ ~Configured(env)
          /\ PersistStep(payload, store_up)
          /\ contact' = Logged(payload, env, store_up, "none",
                                saved_id_of(payload, store_up), NoMail,
                                IF TruthyId(saved_id_of(payload, store_up))
                                THEN SavedOnly200(saved_id_of(payload, store_up))
                                ELSE Http500("Email not configured and database unavailable."))
    /\ nContact' = nContact + 1
    /\ UNCHANGED <<clock, files, video, up, listing, smtp_attempts, smtp_delivered>>

NextContact ==
    \/ ContactRejected
    \/ ContactSent
    \/ ContactSendFailed
    \/ ContactNotConfigured

Init == InitVideo /\ InitContact
\* Uploads and contact submissions are followed from a fresh deployment (an
\* empty store); listings from a store of any size up to MaxStored.
InitFresh == Init /\ video = {}
SpecUpload == InitFresh /\ [][NextUpload]_vars
SpecList == Init /\ [][NextList]_vars
SpecContact == InitFresh /\ [][NextContact]_vars

\* ================================================================ claims
Started(r) == up[r].pc # "idle"
\* Request r is answered in this step.
Answered(r) == up[r].pc # "done" /\ up'[r].pc = "done"
\* A contact submission is handled in this step.
Handled == nContact' = nContact + 1

\* What the claims call a valid submission: every field present, a
\* syntactically valid address, a message of 1..5000 characters.
ValidSubmission(body) ==
    /\ DOMAIN body = {"name", "email", "message"}
    /\ IsEmailSyntax(body.email)
    /\ body.message >= 1
    /\ body.message <= 5000
BadEmail(body) == "email" \notin DOMAIN body \/ ~IsEmailSyntax(body.email)
\* What the claims call configured: sender account and credential present.
EmailConfigured(env) ==
    /\ env.GMAIL_USER \notin {None, ""}
    /\ env.GMAIL_APP_PASSWORD \notin {None, ""}
\* The stored ContactMessage an id string names, if any.
SavedDocs(id) == { d \in contactmessage : IdStr(d["_id"]) = id }

\* ---- C1: when upload_video answers 200, at that moment a file exists at
\* the path of the returned url and holds exactly size_bytes bytes,
\* whatever other uploads (failing ones with their cleanup included) did.
C1_FileMatchesResponse ==
    [][\A r \in Requests :
          (Answered(r) /\ up'[r].resp.code = 200) =>
             /\ Exists(files', PathOfUrl(up'[r].resp.url))
             /\ Len(files'[PathOfUrl(up'[r].resp.url)]) = up'[r].resp.size_bytes]_vars

\* Two uploads got the same name; one was stored and answered 200, the
\* other met a store failure and removed the file.
C1_Witness ==
    \E r, q \in Requests :
       /\ r # q
       /\ up[r].pc = "done" /\ up[r].resp.code = 200
       /\ up[q].pc = "done" /\ up[q].cleanup = "removed"
       /\ up[r].safe_name = up[q].safe_name
       /\ up[r].contents # << >>

\* ---- C2 as stated: when create_document fails after the file was written,
\* then once the request has finished its file does not exist, no Video
\* record was added and the answer is 500 with the underlying message.
C2_Original ==
    [][\A r \in Requests :
          (Answered(r) /\ up'[r].e # NoError) =>
             /\ ~Exists(files', file_path_of(up'[r].safe_name))
             /\ video' = video
             /\ up'[r].resp = [code |-> 500, detail |-> up'[r].e]]_vars

\* ---- C2 as amended: when create_document fails after the file was
\* written, no Video record is added and the answer is 500 with the
\* underlying message; the file does not exist afterwards if os.remove
\* succeeded, and is left in place, as written, if os.remove raised.
C2_CleanupBestEffort ==
    [][\A r \in Requests :
          (Answered(r) /\ up'[r].e # NoError) =>
             /\ video' = video
             /\ up'[r].resp = [code |-> 500, detail |-> up'[r].e]
             /\ up'[r].cleanup = "removed" =>
                   ~Exists(files', file_path_of(up'[r].safe_name))
             /\ up'[r].cleanup # "removed" =>
                   /\ Exists(files', file_path_of(up'[r].safe_name))
                   /\ files'[file_path_of(up'[r].safe_name)] = up'[r].contents]_vars

\* A store failure whose cleanup removed the file.
C2_Witness ==
    \E r \in Requests :
       /\ up[r].pc = "done" /\ up[r].e # NoError /\ up[r].cleanup = "removed"
       /\ up[r].resp.code = 500
       /\ ~Exists(files, file_path_of(up[r].safe_name))

\* ---- C9 as stated: any two upload requests get distinct file names.
C9_Original ==
    \A r, q \in Requests :
       (r # q /\ Started(r) /\ Started(q)) => up[r].safe_name # up[q].safe_name

\* ---- C9 as amended: two upload requests get the same file name (and so
\* the same path and url) exactly when they read the same microsecond of
\* the clock and their declared names have the same extension; requests
\* that differ in either get distinct names, paths and urls.
C9_DistinctUnlessSameInstant ==
    \A r, q \in Requests :
       (r # q /\ Started(r) /\ Started(q)) =>
          LET same == up[r].ts = up[q].ts /\ splitext(up[r].filename) = splitext(up[q].filename)
          IN  /\ (up[r].safe_name = up[q].safe_name) <=> same
              /\ (file_path_of(up[r].safe_name) = file_path_of(up[q].safe_name)) <=> same
              /\ (public_url_of(up[r].safe_name) = public_url_of(up[q].safe_name)) <=> same

\* Two uploads read the same microsecond and still got distinct names, and
\* both files are there.
C9_Witness ==
    \E r, q \in Requests :
       /\ r # q
       /\ up[r].pc = "done" /\ up[q].pc = "done"
       /\ up[r].ts = up[q].ts
       /\ up[r].safe_name # up[q].safe_name
       /\ up[r].resp.code = 200 /\ up[q].resp.code = 200
       /\ Exists(files, file_path_of(up[r].safe_name))
       /\ Exists(files, file_path_of(up[q].safe_name))

\* Every entry of a listing is the public shape of a stored record, and no
\* record appears twice.
MapsDistinctRecords(out) ==
    /\ \A i \in 1..Len(out) : \E d \in video : out[i] = VideoOutOf(d)
    /\ \A i, j \in 1..Len(out) : i # j => out[i].id # out[j].id

\* ---- C10 as stated: with N records stored, list_videos with limit L
\* returns exactly min(L, N) entries, never more than L, each the mapping
\* of a distinct stored record; it answers 500 when the query fails.
C10_Original ==
    /\ listing.code = 200 =>
          /\ Len(listing.out) = Min(listing.limit, Cardinality(video))
          /\ Len(listing.out) <= listing.limit
          /\ MapsDistinctRecords(listing.out)
    /\ listing.e # NoError => listing.code = 500

\* ---- C10 as amended: with N records stored, list_videos with a limit
\* L >= 0 returns exactly min(L, N) entries, never more than L; for every
\* limit each entry is the mapping of a distinct stored record; it answers
\* 500 with the error's message when the query fails.
C10_ListExactlyMin ==
    /\ (listing.code = 200 /\ listing.limit >= 0) =>
          /\ Len(listing.out) = Min(listing.limit, Cardinality(video))
          /\ Len(listing.out) <= listing.limit
    /\ listing.code = 200 => MapsDistinctRecords(listing.out)
    /\ listing.e # NoError => listing.code = 500 /\ listing.detail = listing.e
    /\ listing.code = 500 => listing.e # NoError

\* limit=2 on a store of 5 videos returned exactly 2 records.
C10_Witness ==
    /\ Cardinality(video) = 5
    /\ listing.code = 200 /\ listing.limit = 2
    /\ Len(listing.out) = 2

\* ---- C3 as stated: a contact submission that fails validation of any
\* field (a field missing, the address not valid, the message not of 1..5000
\* characters) has no side effect: no ContactMessage is persisted and no
\* email delivery is attempted.
C3_Claim ==
    [][(Handled /\ ~ValidSubmission(contact'.body)) =>
          /\ contactmessage' = contactmessage
          /\ smtp_attempts' = smtp_attempts]_vars

\* ---- C4: a contact submission whose address is not syntactically valid
\* causes no store write and no email attempt, whatever the email
\* configuration and the store's availability; it is answered 422.
C4_BadEmailNoSideEffect ==
    [][(Handled /\ BadEmail(contact'.body)) =>
          /\ contactmessage' = contactmessage
          /\ nextOid' = nextOid
          /\ smtp_attempts' = smtp_attempts
          /\ smtp_delivered' = smtp_delivered
          /\ contact'.resp.code = 422]_vars

\* An address without a domain dot was rejected although everything else
\* was in order: the other fields valid, email configured, the store up.
C4_Witness ==
    /\ nContact > 0
    /\ DOMAIN contact.body = {"name", "email", "message"}
    /\ ~IsEmailSyntax(contact.body.email)
    /\ Count(contact.body.email, "@") = 1
    /\ contact.body.message = 1
    /\ EmailConfigured(contact.env)
    /\ contact.store_up
    /\ contact.resp.code = 422

\* ---- C5 as stated, for the valid submissions (so that nothing rests on
\* what C3 is about): whenever send_contact answers "saved_only" (200 or
\* 202), a ContactMessage was persisted, saved_id is its non-null id, and
\* no email was delivered.
C5_Claim ==
    (nContact > 0 /\ ValidSubmission(contact.body)
       /\ contact.resp.code \in {200, 202}
       /\ contact.resp.status = "saved_only") =>
       /\ TruthyId(contact.resp.saved_id)
       /\ SavedDocs(contact.resp.saved_id) # {}
       /\ contact.smtp # "ok"

\* The persisted-or-null id the claims speak of: the id of a stored
\* record holding the submission when the store was up, null otherwise.
SavedIdAsPersisted(id) ==
    IF contact.store_up
    THEN /\ TruthyId(id)
         /\ \E d \in SavedDocs(id) :
               /\ d.name = contact.body.name
               /\ d.email = contact.body.email
               /\ d.message = contact.body.message
    ELSE id = NoId

\* ---- C6: for a valid submission with email configured and a successful
\* send, the answer is 200 {status: "sent", saved_id}, saved_id being the
\* persisted record's id if the store write succeeded and null if not.
C6_SentWhateverPersistence ==
    (nContact > 0 /\ ValidSubmission(contact.body) /\ EmailConfigured(contact.env)
       /\ contact.smtp = "ok") =>
       /\ contact.resp.code = 200
       /\ contact.resp.status = "sent"
       /\ SavedIdAsPersisted(contact.resp.saved_id)

\* A mail went out although the store was down: "sent" with a null id.
C6_Witness ==
    /\ nContact > 0 /\ ValidSubmission(contact.body)
    /\ EmailConfigured(contact.env) /\ contact.smtp = "ok"
    /\ ~contact.store_up
    /\ contact.resp.code = 200 /\ contact.resp.saved_id = NoId
    /\ smtp_delivered > 0

C8_NotConfigured ==
    [][(Handled /\ ValidSubmission(contact'.body) /\ ~EmailConfigured(contact'.env)) =>
          /\ smtp_attempts' = smtp_attempts
          /\ smtp_delivered' = smtp_delivered
          /\ contact'.resp.code \in {200, 500}
          /\ (contact'.resp.code = 200) <=> (contactmessage' # contactmessage)
          /\ (contact'.resp.code = 200) <=> contact'.store_up
          /\ contact'.resp.code = 200 =>
                /\ contact'.resp = [code |-> 200, status |-> "saved_only",
                                     saved_id |-> contact'.resp.saved_id]
                /\ TruthyId(contact'.resp.saved_id)
                /\ \E d \in contactmessage' \ contactmessage :
                      IdStr(d["_id"]) = contact'.resp.saved_id]_vars

\* Email not configured (the credential is unset) and the store down: 500.
C8_Witness ==
    /\ nContact > 0 /\ ValidSubmission(contact.body)
    /\ contact.env.GMAIL_USER = "me@gmail.com"
    /\ contact.env.GMAIL_APP_PASSWORD = None
    /\ ~contact.store_up
    /\ contact.resp.code = 500
    /\ smtp_attempts = 0
====
